---- MODULE Spec2Model ----
(***************************************************************************)
(* A model of the pharma data tools of magentic-ui                         *)
(* (src/src/magentic_ui/tools/pharma_data.py): query_data_source,          *)
(* discover_available_sources, analyze_shipment_timeline,                  *)
(* compute_accountability, compute_cost_analysis and                       *)
(* generate_compliance_report, run against a read-only directory of CSV    *)
(* files, and of PharmaDataWorkbench.call_tool                             *)
(* (src/src/magentic_ui/tools/pharma_workbench.py), which dispatches to    *)
(* them.                                                                   *)
(*                                                                         *)
(* The state is the backing storage (does the data directory exist, and    *)
(* the CSV files under it in the order rglob enumerates them), the pending *)
(* invocation, and what the invocation returned.  In Spec one behaviour is *)
(* one invocation: Init draws the storage and the call, one action per     *)
(* function runs the whole function.  In SpecConcurrent several            *)
(* invocations run on one workbench and interleave.                        *)
(***************************************************************************)
EXTENDS Integers, Sequences, FiniteSets, TLC

VARIABLES dirExists, files, call, pc, events, result

vars == <<dirExists, files, call, pc, events, result>>

(***************************************************************************)
(* Bounds of the model.                                                    *)
(***************************************************************************)
MaxRows == 2
MaxLimit == 2
MaxPicks == 3
MaxWasteRows == 11
MaxEvents == 4
MaxMovements == 7
MaxFiles == 3
NumProcs == 2

(***************************************************************************)
(* Values.  A CSV cell as written in the file is blank, a number or a      *)
(* text; a Python value is a str, a number (int, or float when f is TRUE), *)
(* the float nan, or None.                                                 *)
(***************************************************************************)
Blank == [t |-> "blank"]
Str(s) == [t |-> "str", s |-> s]
PyInt(n) == [t |-> "num", n |-> n, f |-> FALSE]
PyFloat(n) == [t |-> "num", n |-> n, f |-> TRUE]
NaN == [t |-> "nan"]
None == [t |-> "none"]

\* A dict argument: its items in insertion order.  A list argument: its members.
Dict(items) == [t |-> "dict", items |-> items]
List(items) == [t |-> "list", items |-> items]

\* The spelling of every string the model compares by characters, as code points.
Chars ==
     "logistics_shipments" :> <<108, 111, 103, 105, 115, 116, 105, 99, 115, 95, 115, 104, 105, 112, 109, 101, 110, 116, 115>> @@
     "sensor_alerts" :> <<115, 101, 110, 115, 111, 114, 95, 97, 108, 101, 114, 116, 115>> @@
     "wms_quarantine_log" :> <<119, 109, 115, 95, 113, 117, 97, 114, 97, 110, 116, 105, 110, 101, 95, 108, 111, 103>> @@
     "wms_goods_movements" :> <<119, 109, 115, 95, 103, 111, 111, 100, 115, 95, 109, 111, 118, 101, 109, 101, 110, 116, 115>> @@
     "finance_waste_log" :> <<102, 105, 110, 97, 110, 99, 101, 95, 119, 97, 115, 116, 101, 95, 108, 111, 103>> @@
     "Sensor_Alerts_2023" :> <<83, 101, 110, 115, 111, 114, 95, 65, 108, 101, 114, 116, 115, 95, 50, 48, 50, 51>> @@
     "sensor_alerts.csv" :> <<115, 101, 110, 115, 111, 114, 95, 97, 108, 101, 114, 116, 115, 46, 99, 115, 118>> @@
     "alerts" :> <<97, 108, 101, 114, 116, 115>> @@
     "2024-01-05T08:00" :> <<50, 48, 50, 52, 45, 48, 49, 45, 48, 53, 84, 48, 56, 58, 48, 48>> @@
     "2024-01-05T10:00" :> <<50, 48, 50, 52, 45, 48, 49, 45, 48, 53, 84, 49, 48, 58, 48, 48>> @@
     "2024-01-05T11:00" :> <<50, 48, 50, 52, 45, 48, 49, 45, 48, 53, 84, 49, 49, 58, 48, 48>> @@
     "shipment_id" :> <<115, 104, 105, 112, 109, 101, 110, 116, 95, 105, 100>> @@
     "investigation_data" :> <<105, 110, 118, 101, 115, 116, 105, 103, 97, 116, 105, 111, 110, 95, 100, 97, 116, 97>> @@
     "source_name is required" :> <<115, 111, 117, 114, 99, 101, 95, 110, 97, 109, 101, 32, 105, 115, 32, 114, 101, 113, 117, 105, 114, 101, 100>> @@
     "Unknown tool: " :> <<85, 110, 107, 110, 111, 119, 110, 32, 116, 111, 111, 108, 58, 32>> @@
     "list_sources" :> <<108, 105, 115, 116, 95, 115, 111, 117, 114, 99, 101, 115>> @@
     "get \"data\"" :> <<103, 101, 116, 32, 34, 100, 97, 116, 97, 34>> @@
     "0" :> <<48>> @@
     "1" :> <<49>> @@
     "3" :> <<51>>

DotCsv == <<46, 99, 115, 118>>

\* str.lower() on one code point (ASCII).
LowerChar(c) == IF c >= 65 /\ c <= 90 THEN c + 32 ELSE c

\* str.lower()
Lower(cs) == [i \in 1..Len(cs) |-> LowerChar(cs[i])]

\* str.endswith(suffix)
EndsWith(cs, suffix) ==
    /\ Len(cs) >= Len(suffix)
    /\ SubSeq(cs, Len(cs) - Len(suffix) + 1, Len(cs)) = suffix

\* needle in hay, for strings
Contains(hay, needle) ==
    \E i \in 0..(Len(hay) - Len(needle)) : SubSeq(hay, i + 1, i + Len(needle)) = needle

\* a < b on str: lexicographic by code point
StrLt(a, b) ==
    \/ \E i \in 1..Len(a) :
          /\ i <= Len(b)
          /\ SubSeq(a, 1, i - 1) = SubSeq(b, 1, i - 1)
          /\ a[i] < b[i]
    \/ /\ Len(a) < Len(b)
       /\ SubSeq(b, 1, Len(a)) = a

\* bool(v), as `if v:` and `not v` take it: nan is a non-zero float
Truthy(v) ==
    CASE v.t = "none" -> FALSE
      [] v.t = "nan" -> TRUE
      [] v.t = "num" -> v.n # 0
      [] v.t = "str" -> v.s # ""

\* a == b on scalars: nan equals nothing, 7 == 7.0, a str never equals a number
PyEq(a, b) ==
    CASE a.t = "num" /\ b.t = "num" -> a.n = b.n
      [] a.t = "str" /\ b.t = "str" -> a.s = b.s
      [] OTHER -> FALSE

\* str(v), as an f-string formats it
PyStr(v) ==
    CASE v.t = "str" -> v.s
      [] v.t = "num" -> IF v.f THEN ToString(v.n) \o ".0" ELSE ToString(v.n)
      [] v.t = "nan" -> "nan"
      [] v.t = "none" -> "None"

(***************************************************************************)
(* The backing storage.  A file is [dir, stem, content]; its content is    *)
(* [parses |-> FALSE] or [parses |-> TRUE, columns, rows], rows mapping    *)
(* every column to a cell.  data_dir is the workbench default.             *)
(***************************************************************************)
data_dir == "mock_data"

FilePath(f) == data_dir \o "/" \o f.dir \o "/" \o f.stem \o ".csv"

FileName(f) == Chars[f.stem] \o DotCsv

\* The subsequence of s whose elements index is in keep, in order.
RECURSIVE SelectIdx(_, _, _)
SelectIdx(s, keep, i) ==
    IF i > Len(s) THEN <<>>
    ELSE IF i \in keep THEN <<s[i]>> \o SelectIdx(s, keep, i + 1)
    ELSE SelectIdx(s, keep, i + 1)

Pick(s, keep) == SelectIdx(s, keep, 1)

(***************************************************************************)
(* pd.read_csv: a blank cell is NaN; a column holding a text is an object  *)
(* column whose numbers stay texts; a numeric column holding a blank is a  *)
(* float column; df.to_dict('records') and the JSON round trip keep these. *)
(***************************************************************************)
ReadCell(rows, c, i) ==
    LET v == rows[i][c]
        hasText == \E j \in 1..Len(rows) : rows[j][c].t = "str"
        hasBlank == \E j \in 1..Len(rows) : rows[j][c].t = "blank"
    IN  CASE v.t = "blank" -> NaN
          [] v.t = "str" -> v
          [] v.t = "num" ->
                IF hasText THEN Str(ToString(v.n))
                ELSE IF hasBlank THEN PyFloat(v.n)
                ELSE v

read_csv(content) ==
    [columns |-> content.columns,
     rows |-> [i \in 1..Len(content.rows) |->
                 [c \in DOMAIN content.rows[i] |-> ReadCell(content.rows, c, i)]]]

ColumnSet(df) == {df.columns[i] : i \in 1..Len(df.columns)}

\* df[df[col].isin(val)] for a list, df[df[col] == val] for a scalar
FilterRows(df, col, val) ==
    LET keep == {i \in 1..Len(df.rows) :
                    IF val.t = "list"
                    THEN \E x \in val.items : PyEq(df.rows[i][col], x)
                    ELSE PyEq(df.rows[i][col], val)}
    IN  [df EXCEPT !.rows = Pick(df.rows, keep)]

\* df.tail(n) in the place of df.head(n): the last n rows.
DfTail(df, n) ==
    LET k == IF n >= 0 THEN n ELSE Len(df.rows) + n
        m == IF k < 0 THEN 0 ELSE IF k > Len(df.rows) THEN Len(df.rows) ELSE k
    IN  [df EXCEPT !.rows = SubSeq(df.rows, Len(df.rows) - m + 1, Len(df.rows))]

\* df.head(n): the first n rows, or all but the last -n for a negative n
DfHead(df, n) ==
    LET k == IF n >= 0 THEN n ELSE Len(df.rows) + n
        m == IF k < 0 THEN 0 ELSE IF k > Len(df.rows) THEN Len(df.rows) ELSE k
    IN  [df EXCEPT !.rows = SubSeq(df.rows, 1, m)]

\* A filter loop that passes over a key that is no column.
RECURSIVE ApplyFiltersSkipUnknown(_, _, _, _)
ApplyFiltersSkipUnknown(df, filters, i, name) ==
    IF i > Len(filters) THEN [ok |-> TRUE, df |-> df]
    ELSE IF filters[i].col \in {df.columns[k] : k \in 1..Len(df.columns)}
         THEN ApplyFiltersSkipUnknown(
                  [df EXCEPT !.rows = SelectIdx(df.rows,
                      {r \in 1..Len(df.rows) :
                          IF filters[i].val.t = "list"
                          THEN \E x \in filters[i].val.items : PyEq(df.rows[r][filters[i].col], x)
                          ELSE PyEq(df.rows[r][filters[i].col], filters[i].val)}, 1)],
                  filters, i + 1, name)
         ELSE ApplyFiltersSkipUnknown(df, filters, i + 1, name)

\* A filter loop that stops after its first key.
ApplyFiltersFirstOnly(df, filters, i, name) ==
    IF i > Len(filters) THEN [ok |-> TRUE, df |-> df]
    ELSE IF filters[i].col \in ColumnSet(df)
         THEN [ok |-> TRUE, df |-> FilterRows(df, filters[i].col, filters[i].val)]
         ELSE [ok |-> FALSE,
               doc |-> [error |-> "Column '" \o filters[i].col \o "' not found in " \o name,
                        available_columns |-> df.columns,
                        results |-> <<>>]]

\* The filter loop: the frame after every key, or the error document of the
\* first key that is no column.
RECURSIVE ApplyFilters(_, _, _, _)
ApplyFilters(df, filters, i, name) ==
    IF i > Len(filters) THEN [ok |-> TRUE, df |-> df]
    ELSE IF filters[i].col \in ColumnSet(df)
         THEN ApplyFilters(FilterRows(df, filters[i].col, filters[i].val), filters, i + 1, name)
         ELSE [ok |-> FALSE,
               doc |-> [error |-> "Column '" \o filters[i].col \o "' not found in " \o name,
                        available_columns |-> df.columns,
                        results |-> <<>>]]

\* A lookup that takes the first file whose stem holds the name, exact or not.
CsvFilesAnyMatch(source_name) ==
    Pick(files, {i \in 1..Len(files) :
                    Contains(Lower(Chars[files[i].stem] \o DotCsv), Lower(Chars[source_name]))})

\* csv_files: rglob(csv_name), else the case-insensitive substring match on stems
CsvFiles(source_name) ==
    LET sn == Chars[source_name]
        csv_name == IF EndsWith(sn, DotCsv) THEN sn ELSE sn \o DotCsv
        exact == {i \in 1..Len(files) : FileName(files[i]) = csv_name}
        partial == {i \in 1..Len(files) : Contains(Lower(Chars[files[i].stem]), Lower(sn))}
    IN  IF exact # {} THEN Pick(files, exact) ELSE Pick(files, partial)

\* The limit test of query_data_source: `if limit:`
LimitApplies(limit) == limit # None /\ Truthy(limit)

query_data_source(source_name, filters, limit) ==
    IF ~dirExists
    THEN [error |-> "Data directory not found: " \o data_dir, results |-> <<>>]
    ELSE LET csv_files == CsvFiles(source_name) IN
         IF csv_files = <<>>
         THEN [error |-> "No CSV file found matching: " \o source_name,
               searched_in |-> data_dir,
               results |-> <<>>]
         ELSE IF ~csv_files[1].content.parses
         THEN [error |-> "Error querying data source: " \o csv_files[1].stem \o ".csv",
               results |-> <<>>]
         ELSE LET df0 == read_csv(csv_files[1].content)
                  name == csv_files[1].stem \o ".csv"
                  filtered == IF filters # None /\ filters.items # <<>>
                              THEN ApplyFilters(df0, filters.items, 1, name)
                              ELSE [ok |-> TRUE, df |-> df0]
              IN  IF ~filtered.ok THEN filtered.doc
                  ELSE LET df == IF LimitApplies(limit)
                                 THEN DfHead(filtered.df, limit.n)
                                 ELSE filtered.df
                       IN  [source_file |-> FilePath(csv_files[1]),
                            total_records |-> Len(df.rows),
                            columns |-> df.columns,
                            results |-> df.rows]

(***************************************************************************)
(* discover_available_sources.                                             *)
(***************************************************************************)
\* pd.read_csv(csv_file, nrows=n): the frame of the first n rows alone
read_csv_nrows(content, n) ==
    read_csv([content EXCEPT !.rows = SubSeq(@, 1, IF Len(@) < n THEN Len(@) ELSE n)])

\* str(csv_file.relative_to(data_path))
RelativePath(f) == f.dir \o "/" \o f.stem \o ".csv"

\* What the loop appends for one file: its metadata, or the error of the read.
SourceDescriptor(f) ==
    IF f.content.parses
    THEN LET df == read_csv_nrows(f.content, 1) IN
         [name |-> f.stem,
          path |-> RelativePath(f),
          category |-> f.dir,
          columns |-> df.columns,
          sample_record |-> IF Len(df.rows) > 0 THEN df.rows[1] ELSE <<>>]
    ELSE [name |-> f.stem,
          path |-> RelativePath(f),
          error |-> "Could not read: " \o f.stem \o ".csv"]

\* A loop that passes over the files it cannot read.
sources_readable_only ==
    LET readable == Pick(files, {i \in 1..Len(files) : files[i].content.parses})
    IN  [i \in 1..Len(readable) |-> SourceDescriptor(readable[i])]

\* The sources list when the loop over rglob("*.csv") ends.
sources == [i \in 1..Len(files) |-> SourceDescriptor(files[i])]

discover_available_sources ==
    IF ~dirExists
    THEN [error |-> "Data directory not found: " \o data_dir, sources |-> <<>>]
    ELSE [data_directory |-> data_dir,
          total_sources |-> Len(sources),
          sources |-> sources]

(***************************************************************************)
(* analyze_shipment_timeline and compute_accountability.                   *)
(***************************************************************************)
sources_to_check ==
    <<"logistics_shipments", "sensor_alerts", "wms_quarantine_log",
      "wms_goods_movements", "finance_waste_log">>

ts_fields == <<"timestamp", "dispatch_dt", "start_ts", "decision_dt", "event_dt">>

\* The timestamp loop: the first ts_field from position i on that the record
\* has with a truthy value, else None.
RECURSIVE ResolveTimestamp(_, _)
ResolveTimestamp(record, i) ==
    IF i > Len(ts_fields) THEN None
    ELSE IF ts_fields[i] \in DOMAIN record /\ Truthy(record[ts_fields[i]])
         THEN record[ts_fields[i]]
         ELSE ResolveTimestamp(record, i + 1)

\* An owner chain that tests decision before supplier_id.
ResolveOwnerDecisionFirst(record) ==
    IF "decision" \in DOMAIN record THEN "QA_Team"
    ELSE IF "supplier_id" \in DOMAIN record THEN "Carrier_" \o PyStr(record["supplier_id"])
    ELSE IF "status" \in DOMAIN record /\ PyEq(record["status"], Str("Quarantined")) THEN "QA_Team"
    ELSE "Unknown"

\* The owner if/elif chain.
ResolveOwner(record) ==
    IF "supplier_id" \in DOMAIN record THEN "Carrier_" \o PyStr(record["supplier_id"])
    ELSE IF "decision" \in DOMAIN record THEN "QA_Team"
    ELSE IF "status" \in DOMAIN record /\ PyEq(record["status"], Str("Quarantined")) THEN "QA_Team"
    ELSE "Unknown"

MakeEvent(source_name, record) ==
    [timestamp |-> ResolveTimestamp(record, 1),
     source |-> source_name,
     owner |-> ResolveOwner(record),
     data |-> record]

\* The events one source contributes: none unless its document has results.
SourceEvents(source_name, shipment_id) ==
    LET result_data == query_data_source(source_name,
                           Dict(<<[col |-> "shipment_id", val |-> Str(shipment_id)]>>), None)
    IN  IF "results" \in DOMAIN result_data /\ result_data.results # <<>>
        THEN [i \in 1..Len(result_data.results) |-> MakeEvent(source_name, result_data.results[i])]
        ELSE <<>>

\* The events list when the loop over sources_to_check ends.
RECURSIVE CollectEvents(_, _)
CollectEvents(shipment_id, i) ==
    IF i > Len(sources_to_check) THEN <<>>
    ELSE SourceEvents(sources_to_check[i], shipment_id) \o CollectEvents(shipment_id, i + 1)

\* a < b on sort keys that can be compared: every comparison with nan is False
KeyLt(a, b) ==
    CASE a.t = "str" /\ b.t = "str" -> StrLt(Chars[a.s], Chars[b.s])
      [] a.t = "num" /\ b.t = "num" -> a.n < b.n
      [] OTHER -> FALSE

\* '<' is not supported between a str and a float or int: sorting a list that
\* holds both raises TypeError.
SortRaises(es) ==
    \E i, j \in 1..Len(es) : (es[i].timestamp.t = "str") # (es[j].timestamp.t = "str")

\* list.sort's count_run: the length of the run that starts the list
RECURSIVE RunLen(_, _, _)
RunLen(es, i, descending) ==
    IF i > Len(es) THEN i - 1
    ELSE IF KeyLt(es[i].timestamp, es[i - 1].timestamp) = descending
         THEN RunLen(es, i + 1, descending)
         ELSE i - 1

Reverse(s) == [i \in 1..Len(s) |-> s[Len(s) + 1 - i]]

\* list.sort's binarysort: where the pivot goes in the sorted prefix (0-based)
RECURSIVE BisectPos(_, _, _, _)
BisectPos(prefix, pivot, l, r) ==
    IF l >= r THEN l
    ELSE LET p == l + ((r - l) \div 2) IN
         IF KeyLt(pivot.timestamp, prefix[p + 1].timestamp)
         THEN BisectPos(prefix, pivot, l, p)
         ELSE BisectPos(prefix, pivot, p + 1, r)

RECURSIVE BinarySort(_, _)
BinarySort(prefix, rest) ==
    IF rest = <<>> THEN prefix
    ELSE LET pos == BisectPos(prefix, rest[1], 0, Len(prefix)) IN
         BinarySort(SubSeq(prefix, 1, pos) \o <<rest[1]>> \o SubSeq(prefix, pos + 1, Len(prefix)),
                    Tail(rest))

\* sorted(es, key=timestamp) for a list shorter than 64, whose keys can be compared
Sorted(es) ==
    IF Len(es) <= 1 THEN es
    ELSE LET descending == KeyLt(es[2].timestamp, es[1].timestamp)
             n == RunLen(es, 3, descending)
             run == IF descending THEN Reverse(SubSeq(es, 1, n)) ELSE SubSeq(es, 1, n)
         IN  BinarySort(run, SubSeq(es, n + 1, Len(es)))

\* A sort input that keeps every event.
WithTimestampAll(es) == es

\* [e for e in events if e["timestamp"]]
WithTimestamp(es) == Pick(es, {i \in 1..Len(es) : Truthy(es[i].timestamp)})

Gcd(a, b) ==
    LET x == IF a < 0 THEN -a ELSE a
    IN  IF x = 0 THEN b ELSE CHOOSE g \in 1..b : /\ x % g = 0 /\ b % g = 0
                                                  /\ \A h \in (g + 1)..b : x % h # 0 \/ b % h # 0

\* The number n/d, d > 0, in lowest terms.
Rat(n, d) == LET g == Gcd(n, d) IN [t |-> "num", num |-> n \div g, den |-> d \div g]

\* A rounding that cuts the digits off.
RoundDown(n, d, digits) ==
    LET scale == IF digits = 1 THEN 10 ELSE 100
    IN  Rat((n * scale) \div d, scale)

\* round(n/d, digits), half to even
Round(n, d, digits) ==
    LET scale == IF digits = 1 THEN 10 ELSE 100
        q == (n * scale) \div d
        twice == 2 * ((n * scale) % d)
        up == twice > d \/ (twice = d /\ q % 2 = 1)
    IN  Rat(IF up THEN q + 1 ELSE q, scale)

\* event.get("owner", "Unknown")
OwnerOf(event) == IF "owner" \in DOMAIN event THEN event.owner ELSE "Unknown"

\* The mapping owner -> [event_count, contribution_pct]; {} for no events.
compute_accountability(es) ==
    LET owners == {OwnerOf(es[i]) : i \in 1..Len(es)}
        count(o) == Cardinality({i \in 1..Len(es) : OwnerOf(es[i]) = o})
        total == Len(es)
    IN  IF total = 0 THEN <<>>
        ELSE [o \in owners |->
                 [contribution_pct |-> Round(count(o) * 100, total, 1),
                  event_count |-> count(o)]]

\* An accountability over every collected event, dropped ones included.
AccountedEventsAll(collected, sorted) == collected

\* The list handed to compute_accountability: events, after the sort rebound it.
AccountedEvents(collected, sorted) == sorted

analyze_shipment_timeline(shipment_id, collected) ==
    LET kept == WithTimestamp(collected) IN
    IF SortRaises(kept)
    THEN [error |-> "Error building timeline: '<' not supported",
          shipment_id |-> shipment_id,
          timeline |-> <<>>]
    ELSE LET sorted == Sorted(kept) IN
         [shipment_id |-> shipment_id,
          total_events |-> Len(sorted),
          timeline |-> sorted,
          accountability |-> compute_accountability(AccountedEvents(collected, sorted))]

(***************************************************************************)
(* compute_cost_analysis.  Amounts are exact fractions [num, den].         *)
(***************************************************************************)
RatAdd(a, b) == Rat(a.num * b.den + b.num * a.den, a.den * b.den)

RatNeg(a) == [a EXCEPT !.num = -a.num]

\* x + y and -x on floats: nan in, nan out
NumAdd(a, b) == IF a.t = "nan" \/ b.t = "nan" THEN NaN ELSE RatAdd(a, b)
NumNeg(a) == IF a.t = "nan" THEN NaN ELSE RatNeg(a)
NumRound(a, digits) == IF a.t = "nan" THEN NaN ELSE Round(a.num, a.den, digits)

\* r.get("total_loss_usd", 0)
LossOf(r) == IF "total_loss_usd" \in DOMAIN r THEN r["total_loss_usd"] ELSE PyInt(0)

RECURSIVE SumLoss(_, _)
SumLoss(results, i) ==
    IF i > Len(results) THEN 0 ELSE LossOf(results[i]).n + SumLoss(results, i + 1)

\* An average over one record more than there are.
AverageLossOffByOne(results) ==
    IF \E i \in 1..Len(results) : LossOf(results[i]).t = "nan"
    THEN NaN
    ELSE Rat(SumLoss(results, 1), Len(results) + 1)

\* total_loss / len(results), for a non-empty results
AverageLoss(results) ==
    IF \E i \in 1..Len(results) : LossOf(results[i]).t = "nan"
    THEN NaN
    ELSE Rat(SumLoss(results, 1), Len(results))

\* A conditional_release whose expected value ignores the probability.
conditional_release_unweighted ==
    [description |-> "Release shipment pending QA approval",
     expected_waste_usd |-> Rat(0, 1),
     qa_review_cost_usd |-> Rat(500, 1),
     total_cost_usd |-> Rat(500, 1),
     probability_success |-> Rat(85, 100),
     expected_value_usd |-> Rat(-500, 1)]

conditional_release ==
    [description |-> "Release shipment pending QA approval",
     expected_waste_usd |-> Rat(0, 1),
     qa_review_cost_usd |-> Rat(500, 1),
     total_cost_usd |-> Rat(500, 1),
     probability_success |-> Rat(85, 100),
     expected_value_usd |-> Rat(-425, 1)]

reject_reship(avg_waste) ==
    [description |-> "Reject shipment and dispatch replacement",
     expected_waste_usd |-> avg_waste,
     reship_logistics_cost_usd |-> Rat(1200, 1),
     total_cost_usd |-> NumAdd(avg_waste, Rat(1200, 1)),
     probability_success |-> Rat(1, 1),
     expected_value_usd |-> NumNeg(NumAdd(avg_waste, Rat(1200, 1)))]

\* The shipment lookup: `not shipment_data.get("results")`
ShipmentMissing(shipment_data) ==
    "results" \notin DOMAIN shipment_data \/ shipment_data.results = <<>>

\* A not-found document that still carries the scenarios.
ShipmentNotFoundPartial(shipment_id) ==
    [error |-> "Shipment not found",
     shipment_id |-> shipment_id,
     scenarios |-> [conditional_release |-> conditional_release,
                    reject_reship |-> reject_reship(Rat(0, 1))]]

ShipmentNotFound(shipment_id) ==
    [error |-> "Shipment not found", shipment_id |-> shipment_id]

compute_cost_analysis(shipment_id) ==
    LET shipment_data == query_data_source("logistics_shipments",
                             Dict(<<[col |-> "shipment_id", val |-> Str(shipment_id)]>>), PyInt(1))
    IN
    IF ShipmentMissing(shipment_data)
    THEN ShipmentNotFound(shipment_id)
    ELSE LET waste_data == query_data_source("finance_waste_log",
                               Dict(<<[col |-> "event_type", val |-> Str("Quarantine")]>>), PyInt(10))
             has == "results" \in DOMAIN waste_data /\ waste_data.results # <<>>
         IN
         IF has /\ \E i \in 1..Len(waste_data.results) : LossOf(waste_data.results[i]).t = "str"
         THEN [error |-> "Error computing cost analysis: unsupported operand type(s) for +",
               shipment_id |-> shipment_id]
         ELSE LET avg_waste == IF has THEN AverageLoss(waste_data.results) ELSE Rat(0, 1) IN
              [shipment_id |-> shipment_id,
               shipment_details |-> shipment_data.results[1],
               scenarios |-> [conditional_release |-> conditional_release,
                              reject_reship |-> reject_reship(avg_waste)],
               historical_waste_avg_usd |-> NumRound(avg_waste, 2)]

(***************************************************************************)
(* generate_compliance_report.  The clock is an input of the call: now is  *)
(* [ymd, iso], what strftime("%Y%m%d") and isoformat() give.               *)
(***************************************************************************)
\* key in d, for a dict of items
DictHas(d, key) == \E i \in 1..Len(d.items) : d.items[i].col = key

\* d.get(key, default)
DictGet(d, key, default) ==
    IF DictHas(d, key)
    THEN d.items[CHOOSE i \in 1..Len(d.items) : d.items[i].col = key].val
    ELSE default

generate_compliance_report(shipment_id, investigation_data, now) ==
    IF investigation_data.t # "dict"
    THEN [error |-> "Error generating report: 'list' object has no attribute 'get'",
          shipment_id |-> shipment_id]
    ELSE [header |-> [document_id |-> "CAPA-" \o shipment_id \o "-" \o now.ymd,
                      document_type |-> "Supply Chain Investigation Report",
                      shipment_id |-> shipment_id,
                      report_date |-> now.iso,
                      prepared_by |-> "AI_Investigation_Agent",
                      status |-> "Draft"],
          investigation_summary |-> DictGet(investigation_data, "summary", Str("Investigation complete")),
          timeline |-> DictGet(investigation_data, "timeline", List({})),
          root_cause_analysis |-> DictGet(investigation_data, "root_causes", List({})),
          accountability |-> DictGet(investigation_data, "accountability", Dict(<<>>)),
          recommendations |-> DictGet(investigation_data, "recommendations", List({})),
          corrective_actions |-> DictGet(investigation_data, "corrective_actions", List({})),
          preventive_actions |-> DictGet(investigation_data, "preventive_actions", List({})),
          approval_required |-> TRUE,
          signoff |-> [prepared_by |-> [name |-> Str("AI_Investigation_Agent"), date |-> Str(now.iso)],
                       reviewed_by |-> [name |-> Str("TBD"), date |-> None],
                       approved_by |-> [name |-> Str("TBD"), date |-> None]]]

(***************************************************************************)
(* PharmaDataWorkbench.call_tool.  A ToolResult is [name, result,          *)
(* is_error]; its content is the text a tool function returned, kept as    *)
(* the document json.dumps wrote, or a text the workbench formatted        *)
(* itself, kept as code points.                                            *)
(***************************************************************************)
JsonContent(doc) == [t |-> "json", doc |-> doc]

TextContent(cs) == [t |-> "text", chars |-> cs]

ToolResult(name, content, is_error) == [name |-> name, result |-> content, is_error |-> is_error]

\* f'{{"error": "{message}"}}'
ErrorText(message) ==
    <<123, 34, 101, 114, 114, 111, 114, 34, 58, 32, 34>> \o message \o <<34, 125>>

\* str(KeyError(key))
KeyErrorStr(key) == <<39>> \o Chars[key] \o <<39>>

call_tool(name, arguments, now) ==
    LET args == IF arguments = None THEN Dict(<<>>) ELSE arguments
        raised(key) == ToolResult(name, TextContent(ErrorText(KeyErrorStr(key))), TRUE)
        returned(doc) == ToolResult(name, JsonContent(doc), FALSE)
    IN  CASE name = "discover_available_sources" -> returned(discover_available_sources)
          [] name = "query_data_source" ->
                LET source_name == DictGet(args, "source_name", None) IN
                IF ~Truthy(source_name)
                THEN ToolResult(name, TextContent(ErrorText(Chars["source_name is required"])), TRUE)
                ELSE returned(query_data_source(source_name.s,
                                                DictGet(args, "filters", None),
                                                DictGet(args, "limit", None)))
          [] name = "analyze_shipment_timeline" ->
                IF ~DictHas(args, "shipment_id") THEN raised("shipment_id")
                ELSE LET shipment_id == DictGet(args, "shipment_id", None).s
                     IN  returned(analyze_shipment_timeline(shipment_id, CollectEvents(shipment_id, 1)))
          [] name = "compute_cost_analysis" ->
                IF ~DictHas(args, "shipment_id") THEN raised("shipment_id")
                ELSE returned(compute_cost_analysis(DictGet(args, "shipment_id", None).s))
          [] name = "generate_compliance_report" ->
                IF ~DictHas(args, "shipment_id") THEN raised("shipment_id")
                ELSE IF ~DictHas(args, "investigation_data") THEN raised("investigation_data")
                ELSE returned(generate_compliance_report(DictGet(args, "shipment_id", None).s,
                                                         DictGet(args, "investigation_data", None),
                                                         now))
          [] OTHER ->
                ToolResult(name, TextContent(ErrorText(Chars["Unknown tool: "] \o Chars[name])), TRUE)

(***************************************************************************)
(* Inputs of the query engine: a sensor_alerts file, alone or beside a     *)
(* second file whose stem holds the same words, and the calls on them.     *)
(***************************************************************************)
SeqsUpTo(S, n) == UNION {[1..k -> S] : k \in 0..n}

SensorColumns == <<"shipment_id", "timestamp", "temp_c">>

SensorRows ==
    {[shipment_id |-> Str("SHP-001-1"), timestamp |-> Str("2024-01-05T10:00"), temp_c |-> PyInt(9)],
     [shipment_id |-> Str("SHP-001-2"), timestamp |-> Str("2024-01-05T11:00"), temp_c |-> PyInt(4)],
     [shipment_id |-> Str("SHP-001-1"), timestamp |-> Blank, temp_c |-> PyInt(4)]}

Table(columns, rows) == [parses |-> TRUE, columns |-> columns, rows |-> rows]

Unparseable == [parses |-> FALSE]

SensorTables(n) == {Table(SensorColumns, rs) : rs \in SeqsUpTo(SensorRows, n)}

File(dir, stem, content) == [dir |-> dir, stem |-> stem, content |-> content]

\* One file, with every table of at most MaxRows rows or no table at all.
QueryStorageOne ==
    {<<File("sensors", st, c)>> :
        st \in {"sensor_alerts", "Sensor_Alerts_2023"},
        c \in SensorTables(MaxRows) \cup {Unparseable}}

\* Two files in either enumeration order, the stems equal or not.
QueryStorageTwo ==
    {<<File(d[1], st[1], c1), File(d[2], st[2], c2)>> :
        d \in {<<"sensors", "archive">>, <<"archive", "sensors">>},
        st \in {<<"sensor_alerts", "Sensor_Alerts_2023">>,
                <<"Sensor_Alerts_2023", "sensor_alerts">>,
                <<"sensor_alerts", "sensor_alerts">>},
        c1 \in SensorTables(1), c2 \in SensorTables(1)}

FilterArgs ==
    {None,
     Dict(<<>>),
     Dict(<<[col |-> "shipment_id", val |-> Str("SHP-001-1")]>>),
     Dict(<<[col |-> "shipment_id", val |-> Str("SHP-404")]>>),
     Dict(<<[col |-> "temp_c", val |-> PyInt(4)]>>),
     Dict(<<[col |-> "shipment_id", val |-> List({Str("SHP-001-1"), Str("SHP-001-2")})]>>),
     Dict(<<[col |-> "shipment_id", val |-> Str("SHP-001-1")], [col |-> "temp_c", val |-> PyInt(4)]>>),
     Dict(<<[col |-> "temp_c", val |-> PyInt(4)], [col |-> "shipment_id", val |-> Str("SHP-001-1")]>>),
     Dict(<<[col |-> "batch", val |-> Str("B-7")]>>),
     Dict(<<[col |-> "shipment_id", val |-> Str("SHP-001-1")], [col |-> "batch", val |-> Str("B-7")]>>),
     Dict(<<[col |-> "batch", val |-> Str("B-7")], [col |-> "shipment_id", val |-> Str("SHP-001-1")]>>),
     Dict(<<[col |-> "batch", val |-> Str("B-7")], [col |-> "lot", val |-> PyInt(4)]>>),
     Dict(<<[col |-> "lot", val |-> PyInt(4)], [col |-> "batch", val |-> Str("B-7")]>>)}

LimitArgs == {None} \cup {PyInt(n) : n \in (-1)..MaxLimit}

QueryCall(s, fl, l) ==
    [name |-> "query_data_source", source_name |-> s, filters |-> fl, limit |-> l]

SourceNameArgs == {"sensor_alerts", "sensor_alerts.csv", "alerts", "finance_waste_log"}

QueryCalls == {QueryCall(s, fl, l) : s \in SourceNameArgs, fl \in FilterArgs, l \in LimitArgs}

QueryCallsByName ==
    {QueryCall(s, fl, None) :
        s \in SourceNameArgs,
        fl \in {None, Dict(<<[col |-> "shipment_id", val |-> Str("SHP-001-1")]>>)}}

(***************************************************************************)
(* Inputs of the timeline fuser: the five sources, each absent, unreadable *)
(* or a table of one of its schemas, holding at most MaxPicks rows in all. *)
(***************************************************************************)
SourceDir ==
    [logistics_shipments |-> "logistics", sensor_alerts |-> "sensors",
     wms_quarantine_log |-> "wms", wms_goods_movements |-> "wms",
     finance_waste_log |-> "finance"]

\* The columns of a source's file: its full schema, a narrower one (alt), or
\* the full schema without the shipment_id column (nosid).
Schema(src, mode) ==
    LET full == CASE src = "logistics_shipments" -> <<"shipment_id", "dispatch_dt", "supplier_id">>
                  [] src = "sensor_alerts" -> <<"shipment_id", "timestamp", "event_dt">>
                  [] src = "wms_quarantine_log" ->
                        <<"shipment_id", "start_ts", "decision_dt", "supplier_id", "decision", "status">>
                  [] src = "wms_goods_movements" -> <<"shipment_id", "event_dt", "status">>
                  [] src = "finance_waste_log" ->
                        <<"shipment_id", "event_dt", "event_type", "total_loss_usd">>
        alt == CASE src = "wms_quarantine_log" -> <<"shipment_id", "decision_dt", "decision", "status">>
                 [] src = "wms_goods_movements" -> <<"shipment_id", "status">>
                 [] OTHER -> full
    IN  CASE mode = "alt" -> alt
          [] mode = "nosid" -> Tail(full)
          [] OTHER -> full

T08 == Str("2024-01-05T08:00")
T10 == Str("2024-01-05T10:00")
T11 == Str("2024-01-05T11:00")
SidA == Str("SHP-001-1")
SidB == Str("SHP-001-2")

\* The rows a source's file can hold, over its full schema.
SourceRows(src) ==
    CASE src = "logistics_shipments" ->
            {[shipment_id |-> SidA, dispatch_dt |-> T08, supplier_id |-> Str("SUP-1")],
             [shipment_id |-> SidB, dispatch_dt |-> T10, supplier_id |-> Str("SUP-2")],
             [shipment_id |-> SidA, dispatch_dt |-> Blank, supplier_id |-> Blank]}
      [] src = "sensor_alerts" ->
            {[shipment_id |-> SidA, timestamp |-> T10, event_dt |-> T08],
             [shipment_id |-> SidA, timestamp |-> Blank, event_dt |-> T11],
             [shipment_id |-> SidA, timestamp |-> T08, event_dt |-> Blank]}
      [] src = "wms_quarantine_log" ->
            {[shipment_id |-> SidA, start_ts |-> T10, decision_dt |-> T11,
              supplier_id |-> Str("SUP-1"), decision |-> Str("Hold"), status |-> Str("Quarantined")],
             [shipment_id |-> SidA, start_ts |-> Blank, decision_dt |-> T11,
              supplier_id |-> Blank, decision |-> Str("Release"), status |-> Str("Released")]}
      [] src = "wms_goods_movements" ->
            {[shipment_id |-> SidA, event_dt |-> PyInt(3), status |-> Str("Quarantined")],
             [shipment_id |-> SidA, event_dt |-> PyInt(1), status |-> Str("Released")],
             [shipment_id |-> SidA, event_dt |-> Blank, status |-> Str("Quarantined")],
             [shipment_id |-> SidA, event_dt |-> PyInt(0), status |-> Str("Released")]}
      [] src = "finance_waste_log" ->
            {[shipment_id |-> SidA, event_dt |-> T11, event_type |-> Str("Quarantine"),
              total_loss_usd |-> PyInt(100)],
             [shipment_id |-> SidA, event_dt |-> T08, event_type |-> Str("Spoilage"),
              total_loss_usd |-> PyInt(50)]}

FusedSources == {sources_to_check[i] : i \in 1..Len(sources_to_check)}

SourceIndex(src) == CHOOSE i \in 1..Len(sources_to_check) : sources_to_check[i] = src

RowPicks == UNION {{[src |-> src, row |-> r] : r \in SourceRows(src)} : src \in FusedSources}

\* The rows of the storage, source by source in the order of sources_to_check.
Picks ==
    {p \in SeqsUpTo(RowPicks, MaxPicks) :
        \A i \in 1..(Len(p) - 1) : SourceIndex(p[i].src) <= SourceIndex(p[i + 1].src)}

AllMode(m) == [src \in FusedSources |-> m]

Modes ==
    {AllMode("ok"), AllMode("absent")}
    \cup {[AllMode("ok") EXCEPT ![src] = m] :
            src \in FusedSources, m \in {"absent", "nosid"}}
    \cup {[AllMode("ok") EXCEPT !["wms_quarantine_log"] = "alt"],
          [AllMode("ok") EXCEPT !["wms_goods_movements"] = "alt"],
          [AllMode("ok") EXCEPT !["sensor_alerts"] = "unparseable"],
          [AllMode("ok") EXCEPT !["logistics_shipments"] = "absent", !["finance_waste_log"] = "nosid"],
          [AllMode("absent") EXCEPT !["sensor_alerts"] = "ok"]}

Project(row, columns) == [c \in {columns[i] : i \in 1..Len(columns)} |-> row[c]]

SourceFile(src, mode, p) ==
    LET mine == Pick(p, {i \in 1..Len(p) : p[i].src = src})
        columns == Schema(src, mode)
    IN  File(SourceDir[src], src,
             IF mode = "unparseable" THEN Unparseable
             ELSE Table(columns, [i \in 1..Len(mine) |-> Project(mine[i].row, columns)]))

FusedStorage(p, m) ==
    Pick([i \in 1..Len(sources_to_check) |-> SourceFile(sources_to_check[i], m[sources_to_check[i]], p)],
         {i \in 1..Len(sources_to_check) : m[sources_to_check[i]] # "absent"})

TimelineStorage == {FusedStorage(p, m) : p \in Picks, m \in Modes}

\* A goods-movements log alone: up to MaxMovements numbered rows of the
\* shipment, the event_dt of each a number or blank.
MovementColumns == <<"shipment_id", "event_dt", "status", "movement_id">>

MovementTables ==
    {Table(MovementColumns,
           [i \in 1..Len(dts) |-> [shipment_id |-> SidA, event_dt |-> dts[i],
                                    status |-> Str("Released"), movement_id |-> PyInt(i)]]) :
        dts \in SeqsUpTo({PyInt(1), PyInt(3), Blank}, MaxMovements)}

MovementStorage == {<<File("wms", "wms_goods_movements", c)>> : c \in MovementTables}

TimelineCalls == {[name |-> "analyze_shipment_timeline", shipment_id |-> "SHP-001-1"]}

(***************************************************************************)
(* Inputs of the cost analyzer: a shipment-logistics file and a waste log  *)
(* of up to MaxWasteRows rows, all Quarantine rows but at most one.        *)
(***************************************************************************)
LogisticsColumns == Schema("logistics_shipments", "ok")

LogisticsStorage ==
    {<<>>}
    \cup {<<File("logistics", "logistics_shipments", Table(LogisticsColumns, rs))>> :
            rs \in SeqsUpTo(SourceRows("logistics_shipments"), MaxRows)}
    \cup {<<File("logistics", "logistics_shipments",
                 Table(Tail(LogisticsColumns), <<[dispatch_dt |-> T08, supplier_id |-> Str("SUP-1")]>>))>>,
          <<File("logistics", "logistics_shipments", Unparseable)>>}

LossPatterns == {"flat", "squares", "last", "blank", "text"}

\* The total_loss_usd cell of row i of n.
LossAt(pattern, i, n) ==
    CASE pattern = "flat" -> PyInt(100)
      [] pattern = "squares" -> PyInt(i * i)
      [] pattern = "last" -> IF i = n THEN PyInt(1000) ELSE PyInt(0)
      [] pattern = "blank" -> IF i = 1 THEN Blank ELSE PyInt(100)
      [] pattern = "text" -> IF i = 1 THEN Str("TBD") ELSE PyInt(100)

WasteRow(pattern, i, n, other) ==
    [shipment_id |-> SidB,
     event_dt |-> T10,
     event_type |-> IF i = other THEN Str("Spoilage") ELSE Str("Quarantine"),
     total_loss_usd |-> LossAt(pattern, i, n)]

WasteColumns == Schema("finance_waste_log", "ok")

WasteTables ==
    UNION {{Table(WasteColumns, [i \in 1..n |-> WasteRow(pattern, i, n, other)]) :
              pattern \in LossPatterns, other \in {0, 1, n}} : n \in 0..MaxWasteRows}
    \cup
    {Table(<<"shipment_id", "event_type">>,
           [i \in 1..n |-> [shipment_id |-> SidB, event_type |-> Str("Quarantine")]]) : n \in 0..1}

WasteStorage ==
    {<<>>, <<File("finance", "finance_waste_log", Unparseable)>>}
    \cup {<<File("finance", "finance_waste_log", c)>> : c \in WasteTables}

CostStorage == {l \o w : l \in LogisticsStorage, w \in WasteStorage}

CostCalls ==
    {[name |-> "compute_cost_analysis", shipment_id |-> sid] : sid \in {"SHP-001-1", "SHP-404"}}

(***************************************************************************)
(* Inputs of compute_accountability: event lists of up to MaxEvents events *)
(* of three owners, some events carrying no owner at all.                  *)
(***************************************************************************)
OwnedEvents ==
    {[timestamp |-> T08, source |-> "logistics_shipments", owner |-> "Carrier_SUP-1"],
     [timestamp |-> T10, source |-> "wms_quarantine_log", owner |-> "QA_Team"],
     [timestamp |-> T11, source |-> "wms_goods_movements", owner |-> "Unknown"],
     [timestamp |-> T11, source |-> "sensor_alerts"]}

AccountabilityArgs == SeqsUpTo(OwnedEvents, MaxEvents)

(***************************************************************************)
(* Inputs of the catalog: up to MaxFiles files of different paths, each    *)
(* unreadable, a header alone, or a header and rows.                       *)
(***************************************************************************)
CatalogFiles ==
    {File(d, st, c) :
        d \in {"sensors", "archive"},
        st \in {"sensor_alerts", "logistics_shipments"},
        c \in {Unparseable,
               Table(SensorColumns, <<>>),
               Table(SensorColumns,
                     <<[shipment_id |-> SidA, timestamp |-> Blank, temp_c |-> PyInt(9)],
                       [shipment_id |-> SidB, timestamp |-> T11, temp_c |-> Blank]>>)}}

CatalogStorage ==
    {fs \in SeqsUpTo(CatalogFiles, MaxFiles) :
        \A i, j \in 1..Len(fs) : i # j => RelativePath(fs[i]) # RelativePath(fs[j])}

(***************************************************************************)
(* Inputs of the report assembler and of the workbench: findings that are  *)
(* a dict or, against the schema, a list; tool names known and unknown;    *)
(* argument mappings with and without the required keys.                   *)
(***************************************************************************)
Clock == [ymd |-> "20240105", iso |-> "2024-01-05T12:00:00"]

Findings ==
    {Dict(<<>>),
     Dict(<<[col |-> "summary", val |-> Str("Temperature excursion in transit")]>>),
     Dict(<<[col |-> "summary", val |-> Str("Temperature excursion in transit")],
            [col |-> "root_causes", val |-> List({Str("Carrier delay")})]>>),
     List({})}

ReportCalls ==
    {[name |-> "generate_compliance_report", shipment_id |-> sid, investigation_data |-> d, now |-> Clock] :
        sid \in {"SHP-001-1", "SHP-404"}, d \in Findings}

ToolNames ==
    {"discover_available_sources", "query_data_source", "analyze_shipment_timeline",
     "compute_cost_analysis", "generate_compliance_report"}

ToolNameArgs == ToolNames \cup {"list_sources", "get \"data\""}

Arg(key, val) == [col |-> key, val |-> val]

ToolArguments ==
    {None,
     Dict(<<>>),
     Dict(<<Arg("shipment_id", Str("SHP-001-1"))>>),
     Dict(<<Arg("shipment_id", Str("SHP-404"))>>),
     Dict(<<Arg("investigation_data", Dict(<<>>))>>),
     Dict(<<Arg("shipment_id", Str("SHP-001-1")), Arg("investigation_data", Dict(<<>>))>>),
     Dict(<<Arg("shipment_id", Str("SHP-001-1")), Arg("investigation_data", List({}))>>),
     Dict(<<Arg("source_name", Str(""))>>),
     Dict(<<Arg("source_name", Str("sensor_alerts"))>>),
     Dict(<<Arg("source_name", Str("finance_waste_log"))>>),
     Dict(<<Arg("source_name", Str("sensor_alerts")), Arg("limit", PyInt(1))>>),
     Dict(<<Arg("source_name", Str("sensor_alerts")),
            Arg("filters", Dict(<<Arg("batch", Str("B-7"))>>))>>),
     Dict(<<Arg("source_name", Str("sensor_alerts")),
            Arg("filters", Dict(<<Arg("shipment_id", Str("SHP-001-1"))>>))>>)}

ToolCalls ==
    {[name |-> "call_tool", tool |-> n, arguments |-> a, now |-> Clock] :
        n \in ToolNameArgs, a \in ToolArguments}

ToolStorage ==
    {<<>>,
     <<File("sensors", "sensor_alerts", Unparseable)>>,
     <<File("sensors", "sensor_alerts",
            Table(SensorColumns,
                  <<[shipment_id |-> SidA, timestamp |-> T10, temp_c |-> PyInt(9)]>>))>>,
     <<File("logistics", "logistics_shipments",
            Table(LogisticsColumns,
                  <<[shipment_id |-> SidA, dispatch_dt |-> T08, supplier_id |-> Str("SUP-1")]>>)),
       File("sensors", "sensor_alerts",
            Table(SensorColumns,
                  <<[shipment_id |-> SidA, timestamp |-> T10, temp_c |-> PyInt(9)]>>))>>}

NoResult == [pending |-> TRUE]

Ready ==
    /\ pc = "ready"
    /\ events = <<>>
    /\ result = NoResult

InitQuery ==
    /\ \/ dirExists = TRUE /\ files \in QueryStorageOne /\ call \in QueryCalls
       \/ dirExists = TRUE /\ files \in QueryStorageTwo /\ call \in QueryCallsByName
       \/ dirExists = FALSE /\ files = <<>> /\ call \in QueryCalls
    /\ Ready

InitTimeline ==
    /\ \/ dirExists = TRUE /\ files \in TimelineStorage
       \/ dirExists = TRUE /\ files \in MovementStorage
       \/ dirExists = FALSE /\ files = <<>>
    /\ call \in TimelineCalls
    /\ Ready

InitCost ==
    /\ \/ dirExists = TRUE /\ files \in CostStorage
       \/ dirExists = FALSE /\ files = <<>>
    /\ call \in CostCalls
    /\ Ready

InitAccountability ==
    /\ dirExists = FALSE
    /\ files = <<>>
    /\ call = [name |-> "compute_accountability"]
    /\ events \in AccountabilityArgs
    /\ pc = "ready"
    /\ result = NoResult

InitDiscover ==
    /\ \/ dirExists = TRUE /\ files \in CatalogStorage
       \/ dirExists = FALSE /\ files = <<>>
    /\ call = [name |-> "discover_available_sources"]
    /\ Ready

InitReport ==
    /\ dirExists \in BOOLEAN
    /\ files = <<>>
    /\ call \in ReportCalls
    /\ Ready

InitCallTool ==
    /\ \/ dirExists = TRUE /\ files \in ToolStorage
       \/ dirExists = FALSE /\ files = <<>>
    /\ call \in ToolCalls
    /\ Ready

Init ==
    \/ InitQuery
    \/ InitTimeline
    \/ InitCost
    \/ InitAccountability
    \/ InitDiscover
    \/ InitReport
    \/ InitCallTool

QueryDataSource ==
    /\ pc = "ready"
    /\ call.name = "query_data_source"
    /\ result' = query_data_source(call.source_name, call.filters, call.limit)
    /\ pc' = "returned"
    /\ UNCHANGED <<dirExists, files, call, events>>

AnalyzeShipmentTimeline ==
    /\ pc = "ready"
    /\ call.name = "analyze_shipment_timeline"
    /\ events' = CollectEvents(call.shipment_id, 1)
    /\ result' = analyze_shipment_timeline(call.shipment_id, events')
    /\ pc' = "returned"
    /\ UNCHANGED <<dirExists, files, call>>

ComputeCostAnalysis ==
    /\ pc = "ready"
    /\ call.name = "compute_cost_analysis"
    /\ result' = compute_cost_analysis(call.shipment_id)
    /\ pc' = "returned"
    /\ UNCHANGED <<dirExists, files, call, events>>

ComputeAccountability ==
    /\ pc = "ready"
    /\ call.name = "compute_accountability"
    /\ result' = compute_accountability(events)
    /\ pc' = "returned"
    /\ UNCHANGED <<dirExists, files, call, events>>

DiscoverAvailableSources ==
    /\ pc = "ready"
    /\ call.name = "discover_available_sources"
    /\ result' = discover_available_sources
    /\ pc' = "returned"
    /\ UNCHANGED <<dirExists, files, call, events>>

GenerateComplianceReport ==
    /\ pc = "ready"
    /\ call.name = "generate_compliance_report"
    /\ result' = generate_compliance_report(call.shipment_id, call.investigation_data, call.now)
    /\ pc' = "returned"
    /\ UNCHANGED <<dirExists, files, call, events>>

CallTool ==
    /\ pc = "ready"
    /\ call.name = "call_tool"
    /\ result' = call_tool(call.tool, call.arguments, call.now)
    /\ pc' = "returned"
    /\ UNCHANGED <<dirExists, files, call, events>>

Next ==
    \/ QueryDataSource
    \/ DiscoverAvailableSources
    \/ AnalyzeShipmentTimeline
    \/ ComputeCostAnalysis
    \/ ComputeAccountability
    \/ GenerateComplianceReport
    \/ CallTool

Spec == Init /\ [][Next]_vars

(***************************************************************************)
(* Concurrent invocations on one workbench.  Every variable but the        *)
(* storage is a function of the invocation: call[p] is its tool call,      *)
(* pc[p] where it stands, events[p] the events list of its                 *)
(* analyze_shipment_timeline frame, result[p] what it returned.  The       *)
(* timeline is collected one source at a time, so that invocations         *)
(* interleave between the reads; the other tools read once.                *)
(***************************************************************************)
Procs == 1..NumProcs

ConcurrentStorage ==
    {<<File("logistics", "logistics_shipments",
            Table(LogisticsColumns,
                  <<[shipment_id |-> SidA, dispatch_dt |-> T08, supplier_id |-> Str("SUP-1")],
                    [shipment_id |-> SidB, dispatch_dt |-> T10, supplier_id |-> Str("SUP-2")]>>)),
       File("sensors", "sensor_alerts",
            Table(SensorColumns, rs))>> : rs \in SeqsUpTo(SensorRows, 1)}
    \cup {<<File("sensors", "sensor_alerts",
                 Table(SensorColumns,
                       <<[shipment_id |-> SidA, timestamp |-> T10, temp_c |-> PyInt(9)],
                         [shipment_id |-> SidB, timestamp |-> T11, temp_c |-> PyInt(4)]>>))>>}

ConcurrentCalls ==
    {[name |-> "call_tool", tool |-> "analyze_shipment_timeline",
      arguments |-> Dict(<<Arg("shipment_id", Str(sid))>>), now |-> Clock] :
        sid \in {"SHP-001-1", "SHP-001-2"}}
    \cup
    {[name |-> "call_tool", tool |-> n, arguments |-> Dict(<<Arg("shipment_id", Str("SHP-001-1")),
                                                            Arg("source_name", Str("sensor_alerts")),
                                                            Arg("investigation_data", Dict(<<>>))>>),
      now |-> Clock] :
        n \in ToolNames \ {"analyze_shipment_timeline"}}

InitConcurrent ==
    /\ dirExists = TRUE
    /\ files \in ConcurrentStorage
    /\ call \in [Procs -> ConcurrentCalls]
    /\ pc = [p \in Procs |-> [at |-> "ready", i |-> 1]]
    /\ events = [p \in Procs |-> <<>>]
    /\ result = [p \in Procs |-> NoResult]

\* An events list that every invocation appends to.
AppendEventsShared(evs, p, new) == [q \in DOMAIN evs |-> evs[q] \o new]

\* events.append(...) on the list of invocation p's own frame
AppendEvents(evs, p, new) == [evs EXCEPT ![p] = @ \o new]

\* A tool that reads the storage once: the whole call.
Invoke(p) ==
    /\ pc[p].at = "ready"
    /\ call[p].tool # "analyze_shipment_timeline"
    /\ result' = [result EXCEPT ![p] = call_tool(call[p].tool, call[p].arguments, call[p].now)]
    /\ pc' = [pc EXCEPT ![p] = [at |-> "returned", i |-> 1]]
    /\ UNCHANGED <<dirExists, files, call, events>>

\* One pass of the loop over sources_to_check.
CollectSource(p) ==
    /\ pc[p].at = "ready"
    /\ call[p].tool = "analyze_shipment_timeline"
    /\ pc[p].i <= Len(sources_to_check)
    /\ events' = AppendEvents(events, p,
                      SourceEvents(sources_to_check[pc[p].i],
                                   DictGet(call[p].arguments, "shipment_id", None).s))
    /\ pc' = [pc EXCEPT ![p].i = @ + 1]
    /\ UNCHANGED <<dirExists, files, call, result>>

\* The sort, the accountability and the return, after the loop.
FinishTimeline(p) ==
    /\ pc[p].at = "ready"
    /\ call[p].tool = "analyze_shipment_timeline"
    /\ pc[p].i > Len(sources_to_check)
    /\ result' = [result EXCEPT ![p] =
                      ToolResult(call[p].tool,
                                 JsonContent(analyze_shipment_timeline(
                                     DictGet(call[p].arguments, "shipment_id", None).s, events[p])),
                                 FALSE)]
    /\ pc' = [pc EXCEPT ![p].at = "returned"]
    /\ UNCHANGED <<dirExists, files, call, events>>

\* The lifecycle methods of the workbench: each body is `pass`.
Start == UNCHANGED vars

Stop == UNCHANGED vars

Reset == UNCHANGED vars

LoadState == UNCHANGED vars

NextConcurrent ==
    \/ \E p \in Procs : Invoke(p)
    \/ \E p \in Procs : CollectSource(p)
    \/ \E p \in Procs : FinishTimeline(p)
    \/ Start
    \/ Stop
    \/ Reset
    \/ LoadState

SpecConcurrent == InitConcurrent /\ [][NextConcurrent]_vars

(***************************************************************************)
(* The properties.                                                         *)
(***************************************************************************)
Returned(name) == pc = "returned" /\ call.name = name

SeqSet(sq) == {sq[i] : i \in 1..Len(sq)}

Min(a, b) == IF a <= b THEN a ELSE b

\* The query loaded a source: the directory is there and the file it resolves
\* to parses.
QueryLoaded ==
    /\ Returned("query_data_source")
    /\ dirExists
    /\ CsvFiles(call.source_name) # <<>>
    /\ CsvFiles(call.source_name)[1].content.parses

LoadedContent == CsvFiles(call.source_name)[1].content

FilterItems == IF call.filters = None THEN <<>> ELSE call.filters.items

UnknownKeys == {i \in 1..Len(FilterItems) : FilterItems[i].col \notin SeqSet(LoadedContent.columns)}

\* C1: a query with a filter key that is no column of the loaded source returns
\* an error document that lists the available columns and has an empty results
\* list, never a success document.
C1_UnknownColumnIsError ==
    (QueryLoaded /\ UnknownKeys # {}) =>
        /\ "error" \in DOMAIN result
        /\ "available_columns" \in DOMAIN result
        /\ result.available_columns = LoadedContent.columns
        /\ result.results = <<>>
        /\ DOMAIN result \cap {"source_file", "total_records", "columns"} = {}

\* C1's case: the first key is a column that matches rows, a later key is not.
C1_Witness ==
    /\ QueryLoaded
    /\ Len(FilterItems) = 2
    /\ UnknownKeys = {2}
    /\ \E i \in 1..Len(LoadedContent.rows) :
          PyEq(LoadedContent.rows[i][FilterItems[1].col], FilterItems[1].val)
    /\ "error" \in DOMAIN result

\* The rows of the loaded source that satisfy every filter, in the row order.
MatchesAll(row) ==
    \A i \in 1..Len(FilterItems) :
        LET v == FilterItems[i].val IN
        IF v.t = "list" THEN \E x \in v.items : PyEq(row[FilterItems[i].col], x)
        ELSE PyEq(row[FilterItems[i].col], v)

ExpectedRows ==
    LET rows == read_csv(LoadedContent).rows
    IN  Pick(rows, {i \in 1..Len(rows) : MatchesAll(rows[i])})

\* C2: with valid filters and a limit >= 0 the results are the first
\* min(limit, n) of the n filtered rows in row order and total_records <= limit;
\* with no limit and no filter the results are every row.
C2_LimitTruncates ==
    (QueryLoaded /\ UnknownKeys = {}) =>
        /\ (call.limit # None /\ call.limit.n >= 0) =>
              /\ result.results = SubSeq(ExpectedRows, 1, Min(call.limit.n, Len(ExpectedRows)))
              /\ result.total_records <= call.limit.n
        /\ (call.limit = None /\ FilterItems = <<>>) =>
              result.results = read_csv(LoadedContent).rows

AnalyzeOk == Returned("analyze_shipment_timeline") /\ "error" \notin DOMAIN result

\* a <= b on timestamps
KeyLe(a, b) == KeyLt(a, b) \/ PyEq(a, b)

\* C3: the returned timeline is non-decreasing in the resolved timestamp and
\* holds no event whose resolved timestamp is null or absent.
C3_TimelineOrdered ==
    AnalyzeOk =>
        /\ \A i \in 1..Len(result.timeline) : result.timeline[i].timestamp \notin {None, NaN}
        /\ \A i \in 1..(Len(result.timeline) - 1) :
              KeyLe(result.timeline[i].timestamp, result.timeline[i + 1].timestamp)

Dropped == {i \in 1..Len(events) : ~Truthy(events[i].timestamp)}

\* C4 as stated: the result reports the number of dropped records in a field
\* of its own, and matched = included + that number.
C4_DropCountReported ==
    AnalyzeOk =>
        \E f \in DOMAIN result \ {"shipment_id", "total_events", "timeline", "accountability"} :
            result[f] = Len(events) - Len(result.timeline)

\* C4, amended: a successful result has exactly the fields shipment_id,
\* total_events, timeline and accountability; total_events counts the included
\* events, and the matched records are the included events plus the records
\* whose resolved timestamp is None or falsy, which no field counts.
C4_DropsNotReported ==
    AnalyzeOk =>
        /\ DOMAIN result = {"shipment_id", "total_events", "timeline", "accountability"}
        /\ result.total_events = Len(result.timeline)
        /\ Len(events) = result.total_events + Cardinality(Dropped)

\* C4's case: some matched records are included and some are dropped.
C4_Witness ==
    /\ AnalyzeOk
    /\ Dropped # {}
    /\ result.total_events >= 1

\* The first column of ts_fields the record holds with a value that is not
\* null, else None.
FirstNonNull(record) ==
    LET found == {k \in 1..Len(ts_fields) :
                     ts_fields[k] \in DOMAIN record /\ record[ts_fields[k]] # NaN}
    IN  IF found = {} THEN None
        ELSE record[ts_fields[CHOOSE k \in found : \A j \in found : k <= j]]

\* C5: every matched record's resolved timestamp is the value of the first
\* column of timestamp, dispatch_dt, start_ts, decision_dt, event_dt that it
\* holds with a non-null value; a null in an earlier column is skipped.
C5_FirstNonNullTimestamp ==
    Returned("analyze_shipment_timeline") =>
        \A i \in 1..Len(events) : events[i].timestamp = FirstNonNull(events[i].data)

\* The owner by the first matching rule.
RuleOwner(record) ==
    CASE "supplier_id" \in DOMAIN record -> "Carrier_" \o PyStr(record["supplier_id"])
      [] "supplier_id" \notin DOMAIN record /\ "decision" \in DOMAIN record -> "QA_Team"
      [] /\ DOMAIN record \cap {"supplier_id", "decision"} = {}
         /\ "status" \in DOMAIN record
         /\ record["status"] = Str("Quarantined") -> "QA_Team"
      [] OTHER -> "Unknown"

\* C6: every matched record's owner is decided by the first matching rule:
\* Carrier_<supplier_id>, else QA_Team for a decision field, else QA_Team for
\* status = Quarantined, else Unknown.
C6_OwnerFirstRule ==
    Returned("analyze_shipment_timeline") =>
        \A i \in 1..Len(events) : events[i].owner = RuleOwner(events[i].data)

\* C6's case: one record has supplier_id and decision and goes to the carrier,
\* another has only a status that is not Quarantined and is Unknown.
C6_Witness ==
    /\ Returned("analyze_shipment_timeline")
    /\ \E i \in 1..Len(events) :
          /\ {"supplier_id", "decision"} \subseteq DOMAIN events[i].data
          /\ events[i].owner = "Carrier_SUP-1"
    /\ \E i \in 1..Len(events) :
          /\ DOMAIN events[i].data \cap {"supplier_id", "decision"} = {}
          /\ "status" \in DOMAIN events[i].data
          /\ events[i].data["status"] = Str("Released")
          /\ events[i].owner = "Unknown"

\* A fused source fails to query: no directory, no file, an unreadable file or
\* no shipment_id column.
SourceFails(src) ==
    \/ ~dirExists
    \/ CsvFiles(src) = <<>>
    \/ ~CsvFiles(src)[1].content.parses
    \/ "shipment_id" \notin SeqSet(CsvFiles(src)[1].content.columns)

\* The timestamped matches of the sources that do not fail.
TimestampedMatches ==
    {e \in SeqSet(events) : ~SourceFails(e.source) /\ Truthy(e.timestamp)}

\* C7: when some of the five sources fail to query, the result is still a
\* timeline document with no error field, whose events are the timestamped
\* matches of the other sources.
C7_FailingSourcesSkipped ==
    (Returned("analyze_shipment_timeline") /\ \E src \in FusedSources : SourceFails(src)) =>
        /\ "error" \notin DOMAIN result
        /\ SeqSet(result.timeline) = TimestampedMatches

CostOk == Returned("compute_cost_analysis") /\ "error" \notin DOMAIN result

\* C8 as stated: conditional_release has total cost 500, probability 0.85 and
\* an expected value that is the negated total cost.
C8_ExpectedValueIsNegatedCost ==
    CostOk =>
        LET cr == result.scenarios.conditional_release IN
        /\ cr.total_cost_usd = Rat(500, 1)
        /\ cr.probability_success = Rat(85, 100)
        /\ cr.expected_value_usd = RatNeg(cr.total_cost_usd)

\* C8, amended: conditional_release has total cost 500, probability 0.85 and
\* expected value -425, the negated total cost times the probability.
C8_ExpectedValueIsWeighted ==
    CostOk =>
        LET cr == result.scenarios.conditional_release IN
        /\ cr.total_cost_usd = Rat(500, 1)
        /\ cr.probability_success = Rat(85, 100)
        /\ cr.expected_value_usd = Rat(-425, 1)
        /\ cr.expected_value_usd.num * cr.total_cost_usd.den * cr.probability_success.den
              = -(cr.total_cost_usd.num * cr.probability_success.num) * cr.expected_value_usd.den

\* C8's case: a cost analysis that found the shipment.
C8_Witness ==
    /\ CostOk
    /\ result.shipment_details["shipment_id"] = Str(call.shipment_id)
    /\ "conditional_release" \in DOMAIN result.scenarios

\* The finance-waste-log rows as the file holds them, and those of event_type
\* Quarantine in row order.
WasteFiles == Pick(files, {i \in 1..Len(files) : files[i].stem = "finance_waste_log"})

QuarantineRows ==
    IF \/ WasteFiles = <<>>
       \/ ~WasteFiles[1].content.parses
       \/ "event_type" \notin SeqSet(WasteFiles[1].content.columns)
    THEN <<>>
    ELSE LET rows == WasteFiles[1].content.rows
         IN  Pick(rows, {i \in 1..Len(rows) : rows[i]["event_type"] = Str("Quarantine")})

HistoricalRows == SubSeq(QuarantineRows, 1, Min(10, Len(QuarantineRows)))

RECURSIVE SumCells(_)
SumCells(rows) ==
    IF rows = <<>> THEN 0 ELSE Head(rows)["total_loss_usd"].n + SumCells(Tail(rows))

\* Every historical row holds a number in total_loss_usd.
LossesKnown ==
    \A i \in 1..Len(HistoricalRows) :
        /\ "total_loss_usd" \in DOMAIN HistoricalRows[i]
        /\ HistoricalRows[i]["total_loss_usd"].t = "num"

C9_WitnessColdStart ==
    /\ CostOk
    /\ QuarantineRows = <<>>
    /\ result.historical_waste_avg_usd = Rat(0, 1)

\* No row of the shipment-logistics source has the shipment_id.
LogisticsFiles == Pick(files, {i \in 1..Len(files) : files[i].stem = "logistics_shipments"})

NoShipmentRow ==
    \/ ~dirExists
    \/ LogisticsFiles = <<>>
    \/ ~LogisticsFiles[1].content.parses
    \/ "shipment_id" \notin SeqSet(LogisticsFiles[1].content.columns)
    \/ \A i \in 1..Len(LogisticsFiles[1].content.rows) :
          LogisticsFiles[1].content.rows[i]["shipment_id"] # Str(call.shipment_id)

\* C10: for a shipment_id that no shipment-logistics row has, the result holds
\* an error field and the shipment_id, and no scenarios, shipment_details or
\* historical_waste_avg_usd.
C10_ShipmentNotFound ==
    (Returned("compute_cost_analysis") /\ NoShipmentRow) =>
        /\ "error" \in DOMAIN result
        /\ "shipment_id" \in DOMAIN result
        /\ result.shipment_id = call.shipment_id
        /\ DOMAIN result \cap {"scenarios", "shipment_details", "historical_waste_avg_usd"} = {}

\* C10's case: the logistics file has rows, none of them for the shipment_id.
C10_Witness ==
    /\ Returned("compute_cost_analysis")
    /\ NoShipmentRow
    /\ dirExists
    /\ LogisticsFiles # <<>>
    /\ LogisticsFiles[1].content.parses
    /\ "shipment_id" \in SeqSet(LogisticsFiles[1].content.columns)
    /\ LogisticsFiles[1].content.rows # <<>>
    /\ "error" \in DOMAIN result

\* The shipment-logistics rows that have the shipment_id, as read, in row order.
ShipmentRows ==
    IF NoShipmentRow THEN <<>>
    ELSE LET rows == read_csv(LogisticsFiles[1].content).rows
         IN  Pick(rows, {i \in 1..Len(rows) : rows[i]["shipment_id"] = Str(call.shipment_id)})

\* C11 as stated: compute_cost_analysis returns scenarios only when exactly one
\* shipment-logistics row has the shipment_id, never for zero rows or for more
\* than one.
C11_ExactlyOneShipmentRow ==
    (Returned("compute_cost_analysis") /\ "scenarios" \in DOMAIN result) =>
        Len(ShipmentRows) = 1

\* C11, amended: compute_cost_analysis returns scenarios only when at least one
\* shipment-logistics row has the shipment_id; when several rows have it the
\* analysis is still returned and shipment_details is the first of them in row
\* order; with no such row there are no scenarios.
C11_FirstShipmentRow ==
    Returned("compute_cost_analysis") =>
        /\ "scenarios" \in DOMAIN result =>
              /\ Len(ShipmentRows) >= 1
              /\ result.shipment_details = ShipmentRows[1]
        /\ Len(ShipmentRows) = 0 => "scenarios" \notin DOMAIN result

\* C11's case: two different rows have the shipment_id and the analysis is
\* returned.
C11_Witness ==
    /\ CostOk
    /\ Len(ShipmentRows) = 2
    /\ ShipmentRows[1] # ShipmentRows[2]
    /\ "scenarios" \in DOMAIN result

\* The events of the list that count for an owner, an event with no owner
\* field counting for Unknown.
EventsOf(es, o) ==
    {i \in 1..Len(es) : IF "owner" \in DOMAIN es[i] THEN es[i].owner = o ELSE o = "Unknown"}

\* A percentage in tenths.
Tenths(pct) == pct.num * (10 \div pct.den)

RECURSIVE SumTenths(_, _)
SumTenths(accountability, owners) ==
    IF owners = {} THEN 0
    ELSE LET o == CHOOSE x \in owners : TRUE
         IN  Tenths(accountability[o].contribution_pct) + SumTenths(accountability, owners \ {o})

Abs(x) == IF x < 0 THEN -x ELSE x

\* C12: compute_accountability returns the empty mapping for the empty list;
\* otherwise it has one entry per owner, with event_count the number of events
\* of that owner and contribution_pct the tenth nearest to 100 * event_count /
\* total, and the contribution_pct values sum to 100.0 within 0.1 times the
\* number of owners.
C12_AccountabilityShares ==
    Returned("compute_accountability") =>
        /\ events = <<>> => DOMAIN result = {}
        /\ events # <<>> =>
              /\ DOMAIN result = {o \in {"Carrier_SUP-1", "QA_Team", "Unknown"} : EventsOf(events, o) # {}}
              /\ \A o \in DOMAIN result :
                    /\ result[o].event_count = Cardinality(EventsOf(events, o))
                    /\ 10 % result[o].contribution_pct.den = 0
                    /\ 2 * Abs(Tenths(result[o].contribution_pct) * Len(events)
                                 - 1000 * result[o].event_count) <= Len(events)
              /\ Abs(SumTenths(result, DOMAIN result) - 1000) <= Cardinality(DOMAIN result)

\* C12's case: three owners with a third of the events each, whose rounded
\* shares do not sum to 100.0.
C12_Witness ==
    /\ Returned("compute_accountability")
    /\ Cardinality(DOMAIN result) = 3
    /\ \E i \in 1..Len(events) : "owner" \notin DOMAIN events[i]
    /\ SumTenths(result, DOMAIN result) # 1000

\* C12's other case: the empty list.
C12_WitnessEmpty ==
    /\ Returned("compute_accountability")
    /\ events = <<>>
    /\ DOMAIN result = {}

\* The file name a source name asks for: the name itself when it ends in .csv,
\* else the name with .csv appended.
AskedName == IF EndsWith(Chars[call.source_name], DotCsv)
             THEN Chars[call.source_name]
             ELSE Chars[call.source_name] \o DotCsv

ExactMatches == {i \in 1..Len(files) : Chars[files[i].stem] \o DotCsv = AskedName}

StemMatches ==
    {i \in 1..Len(files) : Contains(Lower(Chars[files[i].stem]), Lower(Chars[call.source_name]))}

\* The files the returned document can have been read from.
QueriedFiles ==
    {i \in 1..Len(files) : "source_file" \in DOMAIN result /\ result.source_file = FilePath(files[i])}

\* C15: when a file named exactly <source_name>.csv exists the queried file is
\* such a file, even if other stems hold source_name as a substring; a file
\* matched by the case-insensitive substring test is queried only when no file
\* has the exact name; the not-found error that reports the searched root is
\* returned only when neither test matches a file.
C15_ExactMatchFirst ==
    (Returned("query_data_source") /\ dirExists) =>
        /\ (ExactMatches # {} /\ "source_file" \in DOMAIN result) =>
              QueriedFiles \cap ExactMatches # {}
        /\ (ExactMatches = {} /\ "source_file" \in DOMAIN result) =>
              QueriedFiles \cap StemMatches # {}
        /\ ExactMatches \cup StemMatches # {} => "searched_in" \notin DOMAIN result
        /\ ExactMatches \cup StemMatches = {} =>
              /\ "error" \in DOMAIN result
              /\ "searched_in" \in DOMAIN result
              /\ result.searched_in = data_dir

\* C15's case: the first file enumerated holds the name in its stem, a later
\* file has the exact name, and the later file is the one queried.
C15_Witness ==
    /\ Returned("query_data_source")
    /\ Len(files) = 2
    /\ 1 \in StemMatches \ ExactMatches
    /\ 2 \in ExactMatches
    /\ QueriedFiles = {2}

\* C15's other cases: only a substring match, and no match at all.
C15_WitnessSubstring ==
    /\ Returned("query_data_source")
    /\ ExactMatches = {}
    /\ QueriedFiles # {}
    /\ QueriedFiles \subseteq StemMatches

C15_WitnessNotFound ==
    /\ Returned("query_data_source")
    /\ dirExists
    /\ "searched_in" \in DOMAIN result

\* The filter mapping's items in every declaration order.
FilterOrders ==
    {[i \in 1..Len(FilterItems) |-> FilterItems[p[i]]] : p \in Permutations(1..Len(FilterItems))}

\* C17 as stated: the returned document, an error document included, is the
\* same for every declaration order of the filter keys, and with no limit the
\* rows returned are exactly those satisfying all filters.
C17_OrderIndependentDocument ==
    Returned("query_data_source") =>
        /\ \A fl \in FilterOrders :
              query_data_source(call.source_name, Dict(fl), call.limit) = result
        /\ (QueryLoaded /\ UnknownKeys = {} /\ ~LimitApplies(call.limit)) =>
              result.results = ExpectedRows

\* C17, amended: when every filter key is a column the returned document is the
\* same for every declaration order, and with no limit its rows are exactly
\* those satisfying all filters; when some key is no column every order gives an
\* error document with the same available_columns and empty results, whose
\* message names the first such key in declaration order; when no source is
\* loaded the document does not depend on the filters' order.
C17_OrderIndependentRows ==
    Returned("query_data_source") =>
        \A fl \in FilterOrders :
            LET other == query_data_source(call.source_name, Dict(fl), call.limit) IN
            /\ (~QueryLoaded \/ UnknownKeys = {}) => other = result
            /\ (QueryLoaded /\ UnknownKeys = {} /\ ~LimitApplies(call.limit)) =>
                  result.results = ExpectedRows
            /\ (QueryLoaded /\ UnknownKeys # {}) =>
                  LET first == CHOOSE i \in UnknownKeys : \A j \in UnknownKeys : i <= j IN
                  /\ DOMAIN other = DOMAIN result
                  /\ "error" \in DOMAIN result
                  /\ other.available_columns = result.available_columns
                  /\ other.results = <<>> /\ result.results = <<>>
                  /\ result.error = "Column '" \o FilterItems[first].col \o "' not found in "
                                       \o CsvFiles(call.source_name)[1].stem \o ".csv"

\* C17's case: two filter keys that are both columns, declared in an order in
\* which the first key alone keeps a row that the second removes.
C17_Witness ==
    /\ QueryLoaded
    /\ Len(FilterItems) = 2
    /\ UnknownKeys = {}
    /\ FilterItems[1].col # FilterItems[2].col
    /\ \E i \in 1..Len(LoadedContent.rows) :
          /\ PyEq(LoadedContent.rows[i][FilterItems[1].col], FilterItems[1].val)
          /\ ~PyEq(LoadedContent.rows[i][FilterItems[2].col], FilterItems[2].val)
    /\ result.results # <<>>

\* C17's other case: two keys that are no columns, where the error document
\* differs between the two orders.
C17_WitnessTwoUnknown ==
    /\ QueryLoaded
    /\ UnknownKeys = {1, 2}
    /\ \E fl \in FilterOrders :
          query_data_source(call.source_name, Dict(fl), call.limit).error # result.error

\* The events of a list whose resolved timestamp equals ts, in list order.
Tied(es, ts) == Pick(es, {i \in 1..Len(es) : PyEq(es[i].timestamp, ts)})

\* C18: the events of the timeline that share a resolved timestamp appear in
\* the order in which they were collected: by the position of their source in
\* sources_to_check, and within one source by row order.
C18_TiesKeepInsertionOrder ==
    AnalyzeOk =>
        \A k \in 1..Len(result.timeline) :
            LET tied == Tied(result.timeline, result.timeline[k].timestamp) IN
            /\ tied = Tied(events, result.timeline[k].timestamp)
            /\ \A i \in 1..(Len(tied) - 1) :
                  SourceIndex(tied[i].source) <= SourceIndex(tied[i + 1].source)

\* Ties that do keep their order: two events of different sources with one
\* timestamp.
C18_TiesAcrossSources ==
    /\ AnalyzeOk
    /\ \E i, j \in 1..Len(result.timeline) :
          /\ i < j
          /\ result.timeline[i].source # result.timeline[j].source
          /\ PyEq(result.timeline[i].timestamp, result.timeline[j].timestamp)

RECURSIVE SumCounts(_, _)
SumCounts(accountability, owners) ==
    IF owners = {} THEN 0
    ELSE LET o == CHOOSE x \in owners : TRUE
         IN  accountability[o].event_count + SumCounts(accountability, owners \ {o})

\* C19: in a successful result total_events is the length of the timeline, the
\* accountability owners are exactly the owners of the timeline's events, each
\* event_count is the number of timeline events of that owner (dropped records
\* count for nobody), and the event_count values sum to total_events.
C19_AccountabilityOverTimeline ==
    AnalyzeOk =>
        /\ result.total_events = Len(result.timeline)
        /\ DOMAIN result.accountability = {result.timeline[i].owner : i \in 1..Len(result.timeline)}
        /\ \A o \in DOMAIN result.accountability :
              result.accountability[o].event_count =
                  Cardinality({i \in 1..Len(result.timeline) : result.timeline[i].owner = o})
        /\ SumCounts(result.accountability, DOMAIN result.accountability) = result.total_events

\* C19's case: a record was dropped whose owner owns no event of the timeline,
\* and the timeline has events.
C19_Witness ==
    /\ AnalyzeOk
    /\ result.total_events >= 1
    /\ \E i \in Dropped : events[i].owner \notin DOMAIN result.accountability

\* C14: with the data directory present, discover_available_sources returns a
\* document with no error field, total_sources the number of files, and one
\* descriptor per file in enumeration order: name, path, category, columns and
\* sample_record for a file that parses (the sample being its first row, or
\* empty for a file of no rows), and name, path and an error string for a file
\* that does not.
C14_OneDescriptorPerFile ==
    (Returned("discover_available_sources") /\ dirExists) =>
        /\ "error" \notin DOMAIN result
        /\ result.total_sources = Len(files)
        /\ Len(result.sources) = Len(files)
        /\ \A i \in 1..Len(files) :
              LET d == result.sources[i] IN
              /\ d.name = files[i].stem
              /\ d.path = files[i].dir \o "/" \o files[i].stem \o ".csv"
              /\ files[i].content.parses =>
                    /\ DOMAIN d = {"name", "path", "category", "columns", "sample_record"}
                    /\ d.category = files[i].dir
                    /\ d.columns = files[i].content.columns
                    /\ DOMAIN d.sample_record =
                          IF files[i].content.rows = <<>> THEN {} ELSE SeqSet(d.columns)
                    /\ \A c \in DOMAIN d.sample_record :
                          IF files[i].content.rows[1][c] = Blank
                          THEN d.sample_record[c] = NaN
                          ELSE d.sample_record[c] = files[i].content.rows[1][c]
              /\ ~files[i].content.parses =>
                    /\ DOMAIN d = {"name", "path", "error"}
                    /\ d.error # ""

\* C14's case: three files, the first unreadable and a later one readable.
C14_Witness ==
    /\ Returned("discover_available_sources")
    /\ Len(files) = 3
    /\ ~files[1].content.parses
    /\ \E i \in 2..3 : files[i].content.parses /\ files[i].content.rows # <<>>
    /\ result.total_sources = 3

\* Where the JSON string that opens before position i closes: the position of
\* its closing quote, or 0 when the text ends first, a control character
\* stands in it or a backslash starts no escape.
RECURSIVE JsonStringEnd(_, _)
JsonStringEnd(cs, i) ==
    IF i > Len(cs) THEN 0
    ELSE IF cs[i] = 34 THEN i
    ELSE IF cs[i] = 92
         THEN IF i < Len(cs) /\ cs[i + 1] \in {34, 92, 47, 98, 102, 110, 114, 116}
              THEN JsonStringEnd(cs, i + 2)
              ELSE 0
    ELSE IF cs[i] < 32 THEN 0
    ELSE JsonStringEnd(cs, i + 1)

\* The text is a JSON object of one member, a string under the key error:
\* {"error": "..."} and nothing after it.
IsErrorObject(cs) ==
    LET k == JsonStringEnd(cs, 3)
        v == JsonStringEnd(cs, k + 4)
    IN  /\ Len(cs) >= 3
        /\ cs[1] = 123 /\ cs[2] = 34
        /\ k > 0
        /\ SubSeq(cs, 3, k - 1) = <<101, 114, 114, 111, 114>>
        /\ Len(cs) >= k + 3
        /\ cs[k + 1] = 58 /\ cs[k + 2] = 32 /\ cs[k + 3] = 34
        /\ v > 0
        /\ Len(cs) = v + 1
        /\ cs[v + 1] = 125

\* The content of a ToolResult is a document: one that json.dumps wrote, or a
\* text that parses as one.
WellFormed(content) == content.t = "json" \/ IsErrorObject(content.chars)

HasErrorField(content) ==
    IF content.t = "json" THEN "error" \in DOMAIN content.doc ELSE IsErrorObject(content.chars)

ToolArgs == IF call.arguments = None THEN Dict(<<>>) ELSE call.arguments

\* The call through the workbench cannot be served: the tool is unknown, a
\* required argument is missing, or the tool reads a data directory that is
\* not there.
ToolCallFails ==
    \/ call.tool \notin ToolNames
    \/ call.tool = "query_data_source" /\ ~Truthy(DictGet(ToolArgs, "source_name", None))
    \/ call.tool \in {"analyze_shipment_timeline", "compute_cost_analysis", "generate_compliance_report"}
          /\ ~DictHas(ToolArgs, "shipment_id")
    \/ call.tool = "generate_compliance_report" /\ ~DictHas(ToolArgs, "investigation_data")
    \/ call.tool \in {"discover_available_sources", "query_data_source", "compute_cost_analysis"}
          /\ ~dirExists

\* C13: every invocation returns a well-formed document, and a failed one a
\* document with an error field: through call_tool for an unknown tool name, a
\* missing required argument or a missing data directory; directly for a
\* missing data directory, an unknown source, an unreadable source, an unknown
\* column, an absent shipment, or findings that are no mapping.
C13_ErrorDocumentAlways ==
    /\ Returned("call_tool") =>
          /\ WellFormed(result.result)
          /\ ((result.is_error \/ ToolCallFails) => HasErrorField(result.result))
    /\ (Returned("query_data_source") /\ (~QueryLoaded \/ UnknownKeys # {})) =>
          "error" \in DOMAIN result
    /\ Returned("discover_available_sources") =>
          /\ "sources" \in DOMAIN result
          /\ (~dirExists => "error" \in DOMAIN result)
    /\ Returned("analyze_shipment_timeline") =>
          {"shipment_id", "timeline"} \subseteq DOMAIN result
    /\ (Returned("compute_cost_analysis") /\ NoShipmentRow) =>
          "error" \in DOMAIN result
    /\ Returned("generate_compliance_report") =>
          IF call.investigation_data.t = "dict"
          THEN "header" \in DOMAIN result
          ELSE "error" \in DOMAIN result

\* Calls through the workbench that fail with a document: a required argument
\* is missing.
C13_MissingArgumentIsError ==
    /\ Returned("call_tool")
    /\ call.tool = "compute_cost_analysis"
    /\ ~DictHas(ToolArgs, "shipment_id")
    /\ result.is_error
    /\ IsErrorObject(result.result.chars)

\* C16: under every interleaving, an invocation that has returned holds
\* exactly the result its call gives when it runs alone against the same
\* files, and an invocation's events list holds only events of its own
\* shipment.
C16_ResultAsAlone ==
    \A p \in Procs :
        /\ pc[p].at = "returned" =>
              result[p] = call_tool(call[p].tool, call[p].arguments, call[p].now)
        /\ \A k \in 1..Len(events[p]) :
              events[p][k].data["shipment_id"] = DictGet(call[p].arguments, "shipment_id", None)

\* C16's case: one invocation has returned a timeline of its shipment while
\* another, for the other shipment, stands in the middle of its loop with
\* events collected.
C16_Witness ==
    \E p, q \in Procs :
        /\ p # q
        /\ call[p].tool = "analyze_shipment_timeline"
        /\ call[q].tool = "analyze_shipment_timeline"
        /\ call[p] # call[q]
        /\ pc[p].at = "returned"
        /\ "total_events" \in DOMAIN result[p].result.doc
        /\ result[p].result.doc.total_events >= 1
        /\ pc[q].at = "ready"
        /\ pc[q].i \in 2..Len(sources_to_check)
        /\ events[q] # <<>>

====
